---- MODULE Spec2Model ----
(***************************************************************************)
(* Model of app.py, the Flask front end of Real-Time-Voice-Cloning.        *)
(*                                                                         *)
(* The server runs with threaded=True: every request is served by its own  *)
(* thread.  A request first runs the before_request hook startup(), which  *)
(* calls load_models() when encoder_model is None, and then its handler    *)
(* (handle_record, handle_synthesize or health).  The three module globals *)
(* encoder_model, synthesizer_model and vocoder_model are shared by all    *)
(* threads and are not protected by any lock, so the statements of         *)
(* startup()/load_models() of different requests interleave freely.        *)
(* A handler only reads the globals; it is one step of its request.        *)
(***************************************************************************)
EXTENDS Integers, Sequences, FiniteSets

\* Number of requests (threads) the server receives.
NumRequests == 2

Requests == 1..NumRequests

\* Python values of the three globals
None == <<>>
True == <<"True">>
Synthesizer(r) == <<"Synthesizer", r>>   \* the object built at line 44 by request r

VARIABLES
    encoder_model,      \* app.py global: None or True
    synthesizer_model,  \* app.py global: None or the Synthesizer object built by a request
    vocoder_model,      \* app.py global: None or True
    encoder_loaded,     \* encoder.load_model(...) has returned at least once
    vocoder_loaded,     \* vocoder.load_model(...) has returned at least once
    pc,                 \* position of each request's thread
    loadStarts,         \* how many times the body of load_models() was entered
    loadFailed,         \* some load attempt raised
    loadCompleted,      \* some load attempt ran to "Models loaded successfully"
    last                \* the response most recently sent

vars == <<encoder_model, synthesizer_model, vocoder_model, encoder_loaded,
          vocoder_loaded, pc, loadStarts, loadFailed, loadCompleted, last>>

globals == <<encoder_model, synthesizer_model, vocoder_model>>

(***************************************************************************)
(* IEEE-754 doubles near 1.0.  A double x in [0.5, 2] is written as        *)
(* 1 +/- mag * 2^-72 with mag a natural number kept as three base-2^24     *)
(* limbs (most significant first); for such x the subtraction x - 1.0 is   *)
(* exact, so abs(x - 1.0) is mag * 2^-72.  The literal 1e-6 is the double  *)
(* 4722366482869645 * 2^-72.                                               *)
(***************************************************************************)
Double(neg, l2, l1, l0) == [neg |-> neg, mag |-> <<l2, l1, l0>>]

One           == Double(FALSE, 0, 0, 0)                   \* 1.0
OnePlusEps    == Double(FALSE, 16, 13039520, 11534336)    \* 1.0 + 1e-6 = 1.000001
OneMinusEps   == Double(TRUE, 16, 13039520, 12058624)     \* 1.0 - 1e-6 = 0.999999
OnePointTwo   == Double(FALSE, 3355443, 3355443, 3145728) \* 1.2

Eps == <<16, 13039520, 11922829>>                         \* 1e-6

\* abs(x - 1.0), in units of 2^-72
AbsMinusOne(x) == x.mag

\* a > b for magnitudes
MagGreater(a, b) ==
    \/ a[1] > b[1]
    \/ a[1] = b[1] /\ a[2] > b[2]
    \/ a[1] = b[1] /\ a[2] = b[2] /\ a[3] > b[3]

(***************************************************************************)
(* Requests and responses.                                                 *)
(***************************************************************************)
Kinds == {"record", "synthesize", "health"}

\* multipart field 'audio' of POST /api/record
Uploads == {"absent",            \* no 'audio' part
            "noname",            \* part present, filename == ''
            "zero",              \* named part with zero bytes of content
            "corrupt",           \* named part, bytes no decoder understands
            "wav_native",        \* WAV at encoder.sampling_rate
            "wav_other",         \* WAV at another sample rate
            "compressed_other"}  \* a format only librosa decodes, other rate

\* JSON payload of POST /api/synthesize
Bodies     == {"none", "object"}          \* get_json(): no JSON body, or a dict
Texts      == {"absent", "null", "number", "empty", "blank", "hi"}
Embeddings == {"absent", "null", "list"}
Speeds     == {[tag |-> "absent", val |-> One],
               [tag |-> "bad", val |-> One]}   \* a string float() rejects
              \cup {[tag |-> "num", val |-> d] :
                      d \in {One, OnePlusEps, OneMinusEps, OnePointTwo}}

NoSpeed == [tag |-> "n/a", val |-> One]

NoReq == [upload |-> "n/a", body |-> "n/a", text |-> "n/a",
          embedding |-> "n/a", speed |-> NoSpeed]

RecordReqs == {[NoReq EXCEPT !.upload = u] : u \in Uploads}

SynthReqs == {[NoReq EXCEPT !.body = "none"]}
             \cup {[upload |-> "n/a", body |-> "object", text |-> t,
                    embedding |-> e, speed |-> s] :
                      t \in Texts, e \in Embeddings, s \in Speeds}

\* waveforms, up to what the post-processing chain does to them
NoWave == [stretched |-> FALSE, peak |-> "none"]
RawWave(silent) == [stretched |-> FALSE, peak |-> IF silent THEN "zero" ELSE "raw"]

NoDecode == [primary |-> "not_tried", secondary |-> "not_tried", ok |-> FALSE]

NoResponse == [kind |-> "none", by |-> "none", status |-> 0, req |-> NoReq,
               calls |-> {}, decode |-> NoDecode, embedding |-> FALSE,
               base |-> NoWave, audio |-> NoWave, stretch |-> "n/a",
               models_loaded |-> FALSE]

(***************************************************************************)
(* handle_record                                                           *)
(***************************************************************************)
SfRead(bytes) == bytes \in {"wav_native", "wav_other"}

LibrosaLoad(bytes) == bytes \in {"wav_native", "wav_other", "compressed_other"}

NativeRate(bytes) == bytes = "wav_native"

\* The decode step without its except branch.
DecodeNoFallback(bytes) ==
    IF SfRead(bytes)
    THEN [primary |-> "ok", secondary |-> "not_tried", ok |-> TRUE]
    ELSE [primary |-> "fail", secondary |-> "not_tried", ok |-> FALSE]

\* lines 76-83: soundfile first, librosa only in its except branch
Decode(bytes) ==
    IF SfRead(bytes)
    THEN [primary |-> "ok", secondary |-> "not_tried", ok |-> TRUE]
    ELSE [primary |-> "fail",
          secondary |-> IF LibrosaLoad(bytes) THEN "ok" ELSE "fail",
          ok |-> LibrosaLoad(bytes)]

DecodeCalls(d) ==
    {"sf.read"} \cup (IF d.secondary = "not_tried" THEN {} ELSE {"librosa.load"})

RecordFailPoints == {"none", "librosa.resample", "encoder.preprocess_wav",
                     "encoder.embed_utterance"}

\* the stages after decoding (lines 87-111); failAt is the stage that raises
Embed(bytes, failAt) ==
    LET c1 == IF NativeRate(bytes) THEN {} ELSE {"librosa.resample"}
        c2 == c1 \cup {"encoder.preprocess_wav"}
        c3 == c2 \cup {"encoder.embed_utterance"}
    IN  IF failAt = "librosa.resample" /\ ~NativeRate(bytes)
        THEN [status |-> 500, calls |-> c1, embedding |-> FALSE]
        ELSE IF failAt = "encoder.preprocess_wav"
        THEN [status |-> 500, calls |-> c2, embedding |-> FALSE]
        ELSE IF failAt = "encoder.embed_utterance"
        THEN [status |-> 500, calls |-> c3, embedding |-> FALSE]
        ELSE [status |-> 200, calls |-> c3, embedding |-> TRUE]

RecordResponse(req, failAt) ==
    LET base == [NoResponse EXCEPT !.kind = "record", !.by = "handler", !.req = req]
        d    == Decode(req.upload)
        e    == Embed(req.upload, failAt)
    IN  IF req.upload = "absent" THEN [base EXCEPT !.status = 400]
        ELSE IF req.upload = "noname" THEN [base EXCEPT !.status = 400]
        ELSE IF ~d.ok
        THEN [base EXCEPT !.status = 500, !.decode = d, !.calls = DecodeCalls(d)]
        ELSE [base EXCEPT !.status = e.status, !.decode = d,
                          !.calls = DecodeCalls(d) \cup e.calls,
                          !.embedding = e.embedding]

(***************************************************************************)
(* handle_synthesize                                                       *)
(***************************************************************************)
\* data.get('text', '').strip(): "error" when the value has no strip()
StripText(text) ==
    CASE text = "absent" -> ""
      [] text = "empty"  -> ""
      [] text = "blank"  -> ""
      [] text = "hi"     -> "hi"
      [] OTHER           -> "error"

\* data.get('embedding', None)
GetEmbedding(embedding) == IF embedding = "list" THEN <<"list">> ELSE None

\* float(data.get('speed', 1.0))
FloatSpeed(speed) ==
    CASE speed.tag = "absent" -> [ok |-> TRUE, val |-> One]
      [] speed.tag = "num"    -> [ok |-> TRUE, val |-> speed.val]
      [] OTHER                -> [ok |-> FALSE, val |-> One]

\* line 161: abs(speed - 1.0) > 1e-6
StretchRequested(speed) == MagGreater(AbsMinusOne(speed), Eps)

\* line 158: scale to a peak of 0.99 unless the signal is all zero
Normalize099(w) == IF w.peak = "zero" THEN w ELSE [w EXCEPT !.peak = "p99"]

\* librosa.effects.time_stretch: another length, another peak
TimeStretch(w) ==
    [stretched |-> TRUE, peak |-> IF w.peak = "zero" THEN "zero" ELSE "raw"]

StretchFailPoints == {"import", "downmix", "stretch", "renorm"}

\* The same stage writing its intermediate results into wav itself.
TimeStretchStageInPlace(wav, ndim, failAt) ==
    LET stretched == TimeStretch(wav)
    IN  IF failAt = "import" THEN [wav |-> wav, outcome |-> "import"]
        ELSE IF failAt = "downmix" /\ ndim > 1 THEN [wav |-> wav, outcome |-> "downmix"]
        ELSE IF failAt = "stretch" THEN [wav |-> wav, outcome |-> "stretch"]
        ELSE IF failAt = "renorm" THEN [wav |-> stretched, outcome |-> "renorm"]
        ELSE [wav |-> Normalize099(stretched), outcome |-> "ok"]

\* lines 162-181: the try block works on wav_mono and stretched and assigns
\* wav in its last statement only; the except branch logs and goes on
TimeStretchStage(wav, ndim, failAt) ==
    LET wav_mono  == wav
        stretched == TimeStretch(wav_mono)
        renormed  == Normalize099(stretched)
    IN  IF failAt = "import" THEN [wav |-> wav, outcome |-> "import"]
        ELSE IF failAt = "downmix" /\ ndim > 1 THEN [wav |-> wav, outcome |-> "downmix"]
        ELSE IF failAt = "stretch" THEN [wav |-> wav, outcome |-> "stretch"]
        ELSE IF failAt = "renorm" THEN [wav |-> wav, outcome |-> "renorm"]
        ELSE [wav |-> renormed, outcome |-> "ok"]

SynthFailPoints == {"none", "synthesize_spectrograms", "vocoder.infer_waveform",
                    "encoder.preprocess_wav"}

\* What the libraries do during one run of the pipeline: the call that raises
\* (if any), whether the vocoder output is all zero, its number of dimensions,
\* and the step of the time-stretch stage that raises (if any).  Choices that
\* cannot be told apart by the run are listed once.
SynthEnvs ==
    {e \in [fail : SynthFailPoints, silent : BOOLEAN, ndim : {1, 2},
            stretchFail : StretchFailPoints \cup {"none"}] :
        /\ e.fail # "none" => ~e.silent /\ e.ndim = 1 /\ e.stretchFail = "none"
        /\ e.ndim = 2 => e.stretchFail \in {"downmix", "none"}}

NoEnv == [fail |-> "none", silent |-> FALSE, ndim |-> 1, stretchFail |-> "none"]

\* lines 143-195, entered with valid text and embedding
Pipeline(base, speed, env) ==
    LET c1   == {"synthesize_spectrograms"}
        c2   == c1 \cup {"vocoder.infer_waveform"}
        c3   == c2 \cup {"encoder.preprocess_wav"}
        wav  == Normalize099(RawWave(env.silent))
        st   == TimeStretchStage(wav, env.ndim, env.stretchFail)
    IN  IF synthesizer_model = None
        THEN [base EXCEPT !.status = 500]
        ELSE IF env.fail = "synthesize_spectrograms"
        THEN [base EXCEPT !.status = 500, !.calls = c1]
        ELSE IF env.fail = "vocoder.infer_waveform" \/ ~vocoder_loaded
        THEN [base EXCEPT !.status = 500, !.calls = c2]
        ELSE IF env.fail = "encoder.preprocess_wav"
        THEN [base EXCEPT !.status = 500, !.calls = c3]
        ELSE IF ~StretchRequested(speed)
        THEN [base EXCEPT !.status = 200, !.calls = c3, !.base = wav,
                          !.audio = wav, !.stretch = "not_requested"]
        ELSE [base EXCEPT !.status = 200, !.calls = c3, !.base = wav,
                          !.audio = st.wav, !.stretch = st.outcome]

SynthResponse(req, env) ==
    LET base  == [NoResponse EXCEPT !.kind = "synthesize", !.by = "handler", !.req = req]
        text  == StripText(req.text)
        speed == FloatSpeed(req.speed)
    IN  IF req.body = "none" THEN [base EXCEPT !.status = 500]
        ELSE IF text = "error" THEN [base EXCEPT !.status = 500]
        ELSE IF text = "" THEN [base EXCEPT !.status = 400]
        ELSE IF GetEmbedding(req.embedding) = None THEN [base EXCEPT !.status = 400]
        ELSE IF ~speed.ok THEN [base EXCEPT !.status = 500]
        ELSE Pipeline(base, speed.val, env)

\* a request answered before line 146 never meets the libraries
ReachesPipeline(req) ==
    /\ req.body = "object"
    /\ StripText(req.text) \notin {"", "error"}
    /\ GetEmbedding(req.embedding) # None
    /\ FloatSpeed(req.speed).ok

EnvsFor(req) == IF ReachesPipeline(req) THEN SynthEnvs ELSE {NoEnv}

(***************************************************************************)
(* health                                                                  *)
(***************************************************************************)
\* The flag computed from the encoder handle alone.
ModelsLoadedEncoderOnly == encoder_model # None

\* line 207
ModelsLoaded == encoder_model # None /\ vocoder_model # None

HealthResponse ==
    [NoResponse EXCEPT !.kind = "health", !.by = "handler", !.status = 200,
                       !.models_loaded = ModelsLoaded]

\* line 221: the response of startup() when load_models() raised
StartupFailure(kind) ==
    [NoResponse EXCEPT !.kind = kind, !.by = "startup", !.status = 500]

(***************************************************************************)
(* The state machine.                                                      *)
(***************************************************************************)
Init ==
    /\ encoder_model = None
    /\ synthesizer_model = None
    /\ vocoder_model = None
    /\ encoder_loaded = FALSE
    /\ vocoder_loaded = FALSE
    /\ pc = [r \in Requests |-> "startup"]
    /\ loadStarts = 0
    /\ loadFailed = FALSE
    /\ loadCompleted = FALSE
    /\ last = NoResponse

Goto(r, label) == pc' = [pc EXCEPT ![r] = label]

\* line 216, the lazy-initialization check of startup()
StartupCheck(r) ==
    /\ pc[r] = "startup"
    /\ Goto(r, IF encoder_model = None THEN "load_37" ELSE "handler")
    /\ UNCHANGED <<globals, encoder_loaded, vocoder_loaded, loadStarts,
                   loadFailed, loadCompleted, last>>

\* line 37, the same check again inside load_models()
LoadCheck(r) ==
    /\ pc[r] = "load_37"
    /\ IF encoder_model = None
       THEN Goto(r, "load_39") /\ loadStarts' = loadStarts + 1
       ELSE Goto(r, "handler") /\ UNCHANGED loadStarts
    /\ UNCHANGED <<globals, encoder_loaded, vocoder_loaded, loadFailed,
                   loadCompleted, last>>

\* line 39
EnsureDefaultModels(r) ==
    /\ pc[r] = "load_39"
    /\ Goto(r, "load_41")
    /\ UNCHANGED <<globals, encoder_loaded, vocoder_loaded, loadStarts,
                   loadFailed, loadCompleted, last>>

\* line 41
EncoderLoadModel(r) ==
    /\ pc[r] = "load_41"
    /\ encoder_loaded' = TRUE
    /\ Goto(r, "load_42")
    /\ UNCHANGED <<globals, vocoder_loaded, loadStarts, loadFailed,
                   loadCompleted, last>>

\* line 42
SetEncoderModel(r) ==
    /\ pc[r] = "load_42"
    /\ encoder_model' = True
    /\ Goto(r, "load_44")
    /\ UNCHANGED <<synthesizer_model, vocoder_model, encoder_loaded,
                   vocoder_loaded, loadStarts, loadFailed, loadCompleted, last>>

\* line 44: a new Synthesizer object, named after the request that built it
SetSynthesizerModel(r) ==
    /\ pc[r] = "load_44"
    /\ synthesizer_model' = Synthesizer(r)
    /\ Goto(r, "load_45")
    /\ UNCHANGED <<encoder_model, vocoder_model, encoder_loaded,
                   vocoder_loaded, loadStarts, loadFailed, loadCompleted, last>>

\* line 45
VocoderLoadModel(r) ==
    /\ pc[r] = "load_45"
    /\ vocoder_loaded' = TRUE
    /\ Goto(r, "load_46")
    /\ UNCHANGED <<globals, encoder_loaded, loadStarts, loadFailed,
                   loadCompleted, last>>

\* lines 46-48; load_models() and startup() return, the handler is next
SetVocoderModel(r) ==
    /\ pc[r] = "load_46"
    /\ vocoder_model' = True
    /\ loadCompleted' = TRUE
    /\ Goto(r, "handler")
    /\ UNCHANGED <<encoder_model, synthesizer_model, encoder_loaded,
                   vocoder_loaded, loadStarts, loadFailed, last>>

\* lines 39, 41, 44 or 45 raise; startup() catches and answers (lines 219-221)
LoadRaises(r) ==
    /\ pc[r] \in {"load_39", "load_41", "load_44", "load_45"}
    /\ loadFailed' = TRUE
    /\ \E k \in Kinds : last' = StartupFailure(k)
    /\ Goto(r, "done")
    /\ UNCHANGED <<globals, encoder_loaded, vocoder_loaded, loadStarts,
                   loadCompleted>>

HandleRecord(r) ==
    /\ pc[r] = "handler"
    /\ \E req \in RecordReqs, failAt \in RecordFailPoints :
          last' = RecordResponse(req, failAt)
    /\ Goto(r, "done")
    /\ UNCHANGED <<globals, encoder_loaded, vocoder_loaded, loadStarts,
                   loadFailed, loadCompleted>>

HandleSynthesize(r) ==
    /\ pc[r] = "handler"
    /\ \E req \in SynthReqs : \E env \in EnvsFor(req) :
          last' = SynthResponse(req, env)
    /\ Goto(r, "done")
    /\ UNCHANGED <<globals, encoder_loaded, vocoder_loaded, loadStarts,
                   loadFailed, loadCompleted>>

Health(r) ==
    /\ pc[r] = "handler"
    /\ last' = HealthResponse
    /\ Goto(r, "done")
    /\ UNCHANGED <<globals, encoder_loaded, vocoder_loaded, loadStarts,
                   loadFailed, loadCompleted>>

Next ==
    \E r \in Requests :
        \/ StartupCheck(r)
        \/ LoadCheck(r)
        \/ EnsureDefaultModels(r)
        \/ EncoderLoadModel(r)
        \/ SetEncoderModel(r)
        \/ SetSynthesizerModel(r)
        \/ VocoderLoadModel(r)
        \/ SetVocoderModel(r)
        \/ LoadRaises(r)
        \/ HandleRecord(r)
        \/ HandleSynthesize(r)
        \/ Health(r)

Spec == Init /\ [][Next]_vars

TypeOK ==
    /\ encoder_model \in {None, True}
    /\ vocoder_model \in {None, True}
    /\ synthesizer_model \in {None} \cup {Synthesizer(r) : r \in Requests}
    /\ pc \in [Requests -> {"startup", "load_37", "load_39", "load_41", "load_42",
                            "load_44", "load_45", "load_46", "handler", "done"}]
    /\ loadStarts \in 0..NumRequests

(***************************************************************************)
(* Properties.                                                             *)
(***************************************************************************)
LoadBody == {"load_39", "load_41", "load_42", "load_44", "load_45", "load_46"}

LoadInProgress == \E r \in Requests : pc[r] \in LoadBody

AllSet == encoder_model # None /\ synthesizer_model # None /\ vocoder_model # None

\* C1: as long as no load attempt has failed, the body of load_models()
\* (lines 38-48) has been entered at most once, whatever the interleaving of
\* the requests.
C1_LoadBodyEnteredAtMostOnce == ~loadFailed => loadStarts <= 1

\* C2: no request has passed startup() and stands at its handler while
\* another request is still inside the body of load_models().
C2_NoHandlerDuringLoad ==
    \A r, q \in Requests : pc[r] = "handler" => pc[q] \notin LoadBody

\* C3: a load attempt that failed leaves no recorded success: when an attempt
\* has raised, none has completed and none is running, encoder_model is None,
\* so that the check of startup() sends the next request into load_models().
C3_FailedLoadIsReattempted ==
    (loadFailed /\ ~loadCompleted /\ ~LoadInProgress) => encoder_model = None

TextMissingOrEmpty(req) == req.body = "none" \/ req.text \in {"absent", "empty"}

EmbeddingMissing(req) == req.body = "none" \/ req.embedding = "absent"

\* C4: a synthesize request that reaches handle_synthesize with its text
\* missing or empty, or its embedding missing, is answered 400, in every state
\* of the models, and no synthesizer or vocoder call is made for it.
C4_InvalidSynthesizeIs400 ==
    (/\ last.kind = "synthesize"
     /\ last.by = "handler"
     /\ TextMissingOrEmpty(last.req) \/ EmbeddingMissing(last.req))
    => last.status = 400 /\ last.calls = {}

\* C5: an extract-voiceprint request whose upload is missing, has no filename
\* or has zero bytes of content is answered 400 by handle_record, and no
\* decoder or embedder call is made for it.
C5_EmptyUploadIs400 ==
    (/\ last.kind = "record"
     /\ last.by = "handler"
     /\ last.req.upload \in {"absent", "noname", "zero"})
    => last.status = 400 /\ last.calls = {}

\* C6: when the time-stretch stage was entered and failed at any of its
\* steps, the request is answered 200 and the audio written is exactly the
\* unstretched waveform that the 0.99 renormalization of line 158 produced.
C6_StretchFailureFallsBack ==
    (last.kind = "synthesize" /\ last.stretch \in StretchFailPoints)
    => /\ last.status = 200
       /\ last.audio = last.base
       /\ ~last.audio.stretched
       /\ last.audio.peak \in {"p99", "zero"}

C6_Witness ==
    /\ last.kind = "synthesize"
    /\ last.stretch = "renorm"
    /\ last.status = 200
    /\ last.audio = [stretched |-> FALSE, peak |-> "p99"]

WithinEps(speed) ==
    speed.tag = "absent" \/ (speed.tag = "num" /\ speed.val \in {One, OnePlusEps, OneMinusEps})

\* C7: the time-stretch stage is not entered when speed is omitted, is 1.0,
\* or is one of the boundary values 1.0 + 1e-6 and 1.0 - 1e-6, and it is
\* entered for every other speed of a request that gets as far as line 161.
C7_NoStretchWithinEps ==
    (last.kind = "synthesize" /\ last.by = "handler" /\ last.stretch # "n/a")
    => (WithinEps(last.req.speed) <=> last.stretch = "not_requested")

\* C8: handle_record tries librosa.load exactly when soundfile.read failed;
\* when both fail the handler answers 500, runs no resample, preprocess or
\* embed step and returns no embedding.
C8_DecodeFallback ==
    (last.kind = "record" /\ last.by = "handler")
    => /\ "librosa.load" \in last.calls <=> last.decode.primary = "fail"
       /\ (last.decode.primary = "fail" /\ ~last.decode.ok)
          => /\ last.status = 500
             /\ last.calls = {"sf.read", "librosa.load"}
             /\ ~last.embedding

C8_Witness ==
    /\ last.kind = "record"
    /\ last.decode.primary = "fail"
    /\ last.decode.secondary = "fail"
    /\ last.status = 500

AllLoaded == synthesizer_model # None /\ encoder_loaded /\ vocoder_loaded

\* C9: whenever the health flag is (or was reported) true, the encoder, the
\* synthesizer and the vocoder have all been loaded.
C9_HealthImpliesLoaded ==
    /\ ModelsLoaded => AllLoaded
    /\ (last.kind = "health" /\ last.models_loaded) => AllLoaded

C9_Witness == last.kind = "health" /\ last.by = "handler" /\ last.models_loaded

\* C10: once a load has completed and the three handles are set, no step
\* of any request changes encoder_model, synthesizer_model or vocoder_model.
C10_HandlesFrozenAfterLoad ==
    [][(loadCompleted /\ AllSet) => globals' = globals]_vars

====
